---- MODULE Spec2Model ----
(***************************************************************************)
(* All-Service Line ROI Calculator (src/allserviceline.py).                *)
(*                                                                         *)
(* The program is a Streamlit script: every change of a widget reruns the  *)
(* whole script top to bottom on the current widget values.  The state is  *)
(* the widget values (ui, service_name) and the script                     *)
(* globals the run leaves behind (percent_values, with_locums, ...).       *)
(* Each action is one user interaction followed by the full rerun.         *)
(*                                                                         *)
(* Numbers.  Money is kept as an integer count of 1/MoneyScale dollars:    *)
(* the script divides by 100.0 twice (staffed %, referral %) and the       *)
(* referrals-per-unit widget moves in steps of 0.1, so every amount the    *)
(* script computes is a multiple of 1/(10*100*100) dollar.  The field      *)
(* referrals_per_unit holds tenths (12 is 1.2).  Python's round() is       *)
(* round-half-to-even on the double it is given; where the double product  *)
(* p * (100.0 / pct_sum) differs from the exact quotient across a tie the  *)
(* model follows the double (FloatAboveTie).                               *)
(*                                                                         *)
(* The preset source of load_config() is part of the state (yaml,          *)
(* config_files, CFG).  The second script of the repository,               *)
(* all-service-line-roi-v0.9.4/streamlit_app/app.py, has its own state     *)
(* (shift_inputs, payer_mix, shift_a, shift_b, breakeven, shift_messages)  *)
(* and its own actions; the two scripts never touch each other's state.    *)
(***************************************************************************)
EXTENDS Integers, Sequences, FiniteSets, TLC

VARIABLES service_name, ui, percent_values, exact_total_spend_override,
          with_locums, without_locums, active,
          period_locum_cost, period_net, missed_units, period_missed,
          messages,
          yaml, config_files, CFG,
          shift_inputs, payer_mix, shift_a, shift_b, breakeven, shift_messages

vars == <<service_name, ui, percent_values, exact_total_spend_override,
          with_locums, without_locums, active,
          period_locum_cost, period_net, missed_units, period_missed,
          messages,
          yaml, config_files, CFG,
          shift_inputs, payer_mix, shift_a, shift_b, breakeven, shift_messages>>

\* The state of the v0.9.4 script: i, the payer mix blended_direct_rate
\* works with, a, b, the breakeven KPI and the notices shown
shift_vars == <<shift_inputs, payer_mix, shift_a, shift_b, breakeven, shift_messages>>

\* What load_config() reads (the yaml module, the three candidate files) and
\* what it returned
config_vars == <<yaml, config_files, CFG>>

\* What the part of the script after line 63 assigns
session_vars == <<service_name, ui, percent_values, exact_total_spend_override,
                  with_locums, without_locums, active,
                  period_locum_cost, period_net, missed_units, period_missed>>

-----------------------------------------------------------------------------
(* Bounds of the model                                                     *)

MaxUnits == 3
MaxMoney == 2
MaxLocums == 2
MaxDays == 3

\* 1 dollar in model units: tenths of a referral, two divisions by 100.0
MoneyScale == 10 * 100 * 100

Dollars(x) == x * MoneyScale

\* Optional[float]: None, or one value
None == {}
Some(x) == {x}
TheValue(o) == CHOOSE x \in o : TRUE

Max(a, b) == IF a >= b THEN a ELSE b
Min(a, b) == IF a <= b THEN a ELSE b

RECURSIVE SumSeq(_)
SumSeq(s) == IF s = << >> THEN 0 ELSE Head(s) + SumSeq(Tail(s))

-----------------------------------------------------------------------------
(* Python's round() and the normalizer                                     *)

\* round(n / d) for n >= 0, d > 0, on the exact quotient: half to even
RoundHalfEven(n, d) ==
    LET q == n \div d
        r == n % d
    IN  IF 2 * r > d THEN q + 1
        ELSE IF 2 * r < d THEN q
        ELSE IF q % 2 = 0 THEN q ELSE q + 1

\* The pairs <<p, pct_sum>>, p in 0..100 and pct_sum in 1..800, where
\* 100 * p / pct_sum is an exact tie k + 1/2 with k even, and the double
\* p * (100.0 / pct_sum) lies above the tie (62.50000000000001,
\* 12.500000000000002): round() then returns k + 1.  For every other pair of
\* that range round() of the double equals RoundHalfEven of the quotient.
FloatAboveTie ==
    { <<15, 24>>, <<30, 48>>, <<11, 88>>, <<55, 88>>, <<60, 96>>,
      <<85, 136>>, <<95, 152>>, <<22, 176>>, <<39, 312>>, <<44, 352>>,
      <<78, 624>>, <<83, 664>>, <<88, 704>>, <<91, 728>> }

\* round(p * scale) with scale = 100.0 / pct_sum
RoundScaled(p, pct_sum) ==
    IF <<p, pct_sum>> \in FloatAboveTie
    THEN ((100 * p) \div pct_sum) + 1
    ELSE RoundHalfEven(100 * p, pct_sum)

\* Lines 130-138 with the drift correction of lines 136-138 left out
NormalizeMixNoDrift(pv, normalize) ==
    LET pct_sum == SumSeq(pv)
    IN  IF pct_sum # 100 /\ normalize /\ pct_sum > 0
        THEN [i \in 1..Len(pv) |-> RoundScaled(pv[i], pct_sum)]
        ELSE pv

\* Lines 130-138 with the drift added to the last element, not the first
NormalizeMixDriftLast(pv, normalize) ==
    LET pct_sum == SumSeq(pv)
    IN  IF pct_sum # 100 /\ normalize /\ pct_sum > 0
        THEN LET rounded == [i \in 1..Len(pv) |-> RoundScaled(pv[i], pct_sum)]
                 drift == 100 - SumSeq(rounded)
             IN  IF Len(pv) > 0
                 THEN [rounded EXCEPT ![Len(pv)] = @ + drift]
                 ELSE rounded
        ELSE pv

\* Lines 130-138 with the test of the auto-normalize toggle left out
NormalizeMixAlways(pv, normalize) ==
    LET pct_sum == SumSeq(pv)
    IN  IF pct_sum # 100 /\ pct_sum > 0
        THEN LET rounded == [i \in 1..Len(pv) |-> RoundScaled(pv[i], pct_sum)]
                 drift == 100 - SumSeq(rounded)
             IN  IF Len(pv) > 0
                 THEN [rounded EXCEPT ![1] = @ + drift]
                 ELSE rounded
        ELSE pv

\* percent_values after lines 130-138: pv are the slider values, normalize
\* the auto-normalize toggle
NormalizeMix(pv, normalize) ==
    LET pct_sum == SumSeq(pv)
    IN  IF pct_sum # 100 /\ normalize /\ pct_sum > 0
        THEN LET rounded == [i \in 1..Len(pv) |-> RoundScaled(pv[i], pct_sum)]
                 drift == 100 - SumSeq(rounded)
             IN  IF Len(pv) > 0
                 THEN [rounded EXCEPT ![1] = @ + drift]
                 ELSE rounded
        ELSE pv

-----------------------------------------------------------------------------
(* Scenario evaluation                                                     *)

\* max(0, min(100, staffed_pct)) without the upper limit
ClampNoUpper(staffed_pct) == Max(0, staffed_pct)

\* max(0, min(100, staffed_pct)), lines 142 and 158
Clamp(staffed_pct) == Max(0, Min(100, staffed_pct))

\* zip(percent_values, ref_types): the shorter of the two
ZipLen(pv, ref_types) == Min(Len(pv), Len(ref_types))

\* float(rt.get("unit_rev", revenue_per_referral))
RtUnitRev(rt, revenue_per_referral) ==
    IF rt.unit_rev = None THEN revenue_per_referral ELSE TheValue(rt.unit_rev)

RECURSIVE MixRevenue(_, _, _, _)
\* sum over the first n pairs of pct * rt_unit_rev
MixRevenue(pv, ref_types, revenue_per_referral, n) ==
    IF n = 0 THEN 0
    ELSE MixRevenue(pv, ref_types, revenue_per_referral, n - 1)
         + pv[n] * RtUnitRev(ref_types[n], revenue_per_referral)

\* referral_revenue_for with ref_total not scaled by the staffed percentage
referral_revenue_for_unscaled(u, s, pv, staffed_pct) ==
    u.total_units * u.referrals_per_unit * 100
    * MixRevenue(pv, s.ref_types, u.revenue_per_referral, ZipLen(pv, s.ref_types))

\* referral_revenue_for, in 1/MoneyScale dollars:
\*   ref_total = total_units * referrals_per_unit * clamp / 100.0
\*   total    += ref_total * (pct / 100.0) * rt_unit_rev
referral_revenue_for(u, s, pv, staffed_pct) ==
    u.total_units * u.referrals_per_unit * Clamp(staffed_pct)
    * MixRevenue(pv, s.ref_types, u.revenue_per_referral, ZipLen(pv, s.ref_types))

\* int(round(total_units * staffed_pct / 100.0)); the product is an exact
\* integer and the division is correctly rounded, so ties are exact
UnitsCovered(total_units, staffed_pct) ==
    RoundHalfEven(total_units * staffed_pct, 100)

\* line 164 with revenue and cost exchanged
NetBeforeSwapped(gross_rev, ref_rev, operating_cost) ==
    operating_cost + ref_rev - gross_rev

\* net_before = gross_rev + ref_rev - operating_cost
NetBefore(gross_rev, ref_rev, operating_cost) ==
    gross_rev + ref_rev - operating_cost

\* line 165 with the locum cost added instead of subtracted
NetAfterAdded(net_before, locum_cost_per) == net_before + locum_cost_per

\* net_after = net_before - locum_cost_per
NetAfter(net_before, locum_cost_per) == net_before - locum_cost_per

\* line 163 with the count applied to the hourly part only
LocumCostPerTravelOnce(locum_count, hourly_rate, hours_per_shift, travel_per_day) ==
    Dollars(hourly_rate * hours_per_shift * locum_count + travel_per_day)

\* locum_cost_per = (hourly_rate * hours_per_shift + travel_per_day) * locum_count
LocumCostPer(locum_count, hourly_rate, hours_per_shift, travel_per_day) ==
    Dollars((hourly_rate * hours_per_shift + travel_per_day) * locum_count)

\* scenario(): u the widget values, s the service line, pv percent_values
scenario(u, s, pv, staffed_pct_in, locum_count, hourly_rate, hours_per_shift, travel_per_day) ==
    LET staffed_pct == Clamp(staffed_pct_in)
        units_covered == UnitsCovered(u.total_units, staffed_pct)
        gross_rev == Dollars(units_covered * u.unit_rev)
        operating_cost == Dollars(units_covered * u.unit_cost)
        ref_rev == referral_revenue_for(u, s, pv, staffed_pct)
        locum_cost_per == LocumCostPer(locum_count, hourly_rate,
                                       hours_per_shift, travel_per_day)
        net_before == NetBefore(gross_rev, ref_rev, operating_cost)
        net_after == NetAfter(net_before, locum_cost_per)
    IN  [ staffed_pct |-> staffed_pct,
          units_covered |-> units_covered,
          gross_rev |-> gross_rev,
          operating_cost |-> operating_cost,
          referral_rev |-> ref_rev,
          locum_total |-> locum_cost_per,
          net_before |-> net_before,
          net_after |-> net_after ]

-----------------------------------------------------------------------------
(* Period aggregation                                                      *)

\* lines 198-201 with the override ignored
PeriodLocumCostComputed(use_locums, toggle, override, act, annual_days) ==
    act.locum_total * annual_days

\* lines 198-201
PeriodLocumCost(use_locums, toggle, override, act, annual_days) ==
    IF use_locums /\ toggle /\ override # None /\ TheValue(override) > 0
    THEN Dollars(TheValue(override))
    ELSE act.locum_total * annual_days

\* line 203 computed from net_after, whatever the period locum cost
PeriodNetFromNetAfter(act, annual_days, locum_cost) ==
    act.net_after * annual_days

\* period_net = active["net_before"] * annual_days - period_locum_cost
PeriodNet(act, annual_days, locum_cost) ==
    act.net_before * annual_days - locum_cost

\* missed_units = max(0, total_units - active["units_covered"])
MissedUnits(total_units, act) == Max(0, total_units - act.units_covered)

\* line 206 with the unit cost not deducted
PeriodMissedNoCost(u, missed, annual_days) ==
    missed
    * ( Dollars(u.unit_rev)
        + u.referrals_per_unit * u.revenue_per_referral * (MoneyScale \div 10) )
    * annual_days

\* period_missed, line 206, in 1/MoneyScale dollars
PeriodMissed(u, missed, annual_days) ==
    missed
    * ( Dollars(u.unit_rev)
        + u.referrals_per_unit * u.revenue_per_referral * (MoneyScale \div 10)
        - Dollars(u.unit_cost) )
    * annual_days

-----------------------------------------------------------------------------
(* The exact-total override, lines 101-117, on widget values u             *)

\* lines 102-117: the toggle and the amount exist only while locums are used
ExactToggle(u) == u.use_locums /\ u.use_exact_total_toggle

ExactOverride(u) ==
    IF ExactToggle(u) THEN Some(u.exact_total_input) ELSE None

-----------------------------------------------------------------------------
(* Service lines (CFG, lines 36-67) and the widgets' ranges                *)

\* Two presets in the shape of load_config()'s sample: the first is the
\* sample scaled to small amounts (its last referral type has no unit_rev of
\* its own), the second has a mix of 50/30/10 and locums disabled.
SERVICE_LINES ==
    { [ display_name |-> "hospitalist_med_surg",
        default |-> [ total_units |-> 2, occupancy_pct |-> 75, unit_rev |-> 2,
                      unit_cost |-> 1, referrals_per_unit |-> 12 ],
        revenue_per_referral |-> 1,
        ref_types |-> << [ pct |-> 30, unit_rev |-> Some(1) ],
                         [ pct |-> 25, unit_rev |-> Some(2) ],
                         [ pct |-> 25, unit_rev |-> Some(3) ],
                         [ pct |-> 20, unit_rev |-> None ] >>,
        locum |-> [ enabled |-> TRUE, default_count |-> 1,
                    utilization_pct |-> 80, hourly_rate |-> 1,
                    hours_per_shift |-> 2, travel_per_day |-> 1 ] ],
      [ display_name |-> "radiology",
        default |-> [ total_units |-> 3, occupancy_pct |-> 50, unit_rev |-> 1,
                      unit_cost |-> 1, referrals_per_unit |-> 5 ],
        revenue_per_referral |-> 2,
        ref_types |-> << [ pct |-> 50, unit_rev |-> None ],
                         [ pct |-> 30, unit_rev |-> Some(1) ],
                         [ pct |-> 10, unit_rev |-> Some(2) ] >>,
        locum |-> [ enabled |-> FALSE, default_count |-> 1,
                    utilization_pct |-> 50, hourly_rate |-> 1,
                    hours_per_shift |-> 1, travel_per_day |-> 0 ] ] }

\* A preset file whose third referral type has a negative unit_rev
NEGATIVE_RATE_LINES ==
    { [ display_name |-> "imaging",
        default |-> [ total_units |-> 2, occupancy_pct |-> 50, unit_rev |-> 1,
                      unit_cost |-> 1, referrals_per_unit |-> 12 ],
        revenue_per_referral |-> 1,
        ref_types |-> << [ pct |-> 50, unit_rev |-> Some(1) ],
                         [ pct |-> 30, unit_rev |-> None ],
                         [ pct |-> 20, unit_rev |-> Some(0 - 2) ] >>,
        locum |-> [ enabled |-> TRUE, default_count |-> 1,
                    utilization_pct |-> 50, hourly_rate |-> 1,
                    hours_per_shift |-> 1, travel_per_day |-> 0 ] ] }

\* sample of load_config(): the one built-in service line
sample == { sl \in SERVICE_LINES : sl.display_name = "hospitalist_med_surg" }

\* What one of the candidate paths of line 55 holds:
\*   absent            os.path.exists(p) is false
\*   unreadable        it exists and open() raises
\*   malformed         yaml.safe_load raises
\*   empty             safe_load returns None (or another false value)
\*   not_mapping       safe_load returns a list or a scalar
\*   no_service_lines  a mapping without service_lines, or with an empty one
\*   valid             a mapping holding SERVICE_LINES
\*   negative_rate     a mapping holding NEGATIVE_RATE_LINES
FileKinds ==
    { "absent", "unreadable", "malformed", "empty", "not_mapping",
      "no_service_lines", "valid", "negative_rate" }

\* The kinds for which line 59 is true
Usable == {"valid", "negative_rate"}

\* The kinds for which open() or yaml.safe_load raises (lines 57-58)
Raising == {"unreadable", "malformed"}

RECURSIVE ScanPaths(_, _)
\* The loop of lines 55-60 from path k on; "raised" is an exception leaving
\* load_config, "sample" the return of line 61
ScanPaths(files, k) ==
    IF k > Len(files) THEN "sample"
    ELSE IF files[k] \in Raising THEN "raised"
    ELSE IF files[k] \in Usable THEN files[k]
    ELSE ScanPaths(files, k + 1)

\* load_config with a try/except around the read of each file
load_config_guarded(yaml_ok, files) ==
    IF ~yaml_ok THEN "sample"
    ELSE LET usable == { k \in 1..Len(files) : files[k] \in Usable }
         IN  IF usable = {} THEN "sample"
             ELSE files[CHOOSE k \in usable : \A j \in usable : k <= j]

\* load_config(), lines 36-61: the name of what it returns
load_config(yaml_ok, files) ==
    IF ~yaml_ok THEN "sample" ELSE ScanPaths(files, 1)

\* CFG.get("service_lines", []) for a returned CFG
ServiceLinesOf(cfg) ==
    IF cfg = "sample" THEN sample
    ELSE IF cfg = "valid" THEN SERVICE_LINES
    ELSE IF cfg = "negative_rate" THEN NEGATIVE_RATE_LINES
    ELSE {}

\* SERVICE_MAP = {sl["display_name"]: sl for sl in CFG["service_lines"]}
SERVICE_MAP ==
    [ n \in { sl.display_name : sl \in ServiceLinesOf(CFG) } |->
        CHOOSE sl \in ServiceLinesOf(CFG) : sl.display_name = n ]

\* svc = SERVICE_MAP[service_name]
svc == SERVICE_MAP[service_name]

UnitValues == 1..MaxUnits                      \* min_value=1, line 73
StaffedValues == {0, 50, 75, 100}              \* slider 0..100, line 74
UtilValues == {0, 50, 80}                      \* slider 0..100, line 99
MoneyValues == 0..MaxMoney                     \* min_value=0.0
ReferralValues == {0, 5, 12}                   \* tenths, min_value=0.0, step=0.1
LocumValues == 0..MaxLocums                    \* min_value=0, line 93
HourValues == {1, 2}                           \* 1..24, line 96
DayValues == 1..MaxDays                        \* 1..366, line 195
SliderValues == {0, 1, 4, 9, 15, 50}   \* line 127

\* The widgets' default values for service line s (value=... arguments)
Defaults(s) ==
    [ total_units |-> s.default.total_units,
      occupancy_pct |-> s.default.occupancy_pct,
      unit_rev |-> s.default.unit_rev,
      unit_cost |-> s.default.unit_cost,
      referrals_per_unit |-> s.default.referrals_per_unit,
      revenue_per_referral |-> s.revenue_per_referral,
      use_locums |-> s.locum.enabled,
      locum_count_ui |-> s.locum.default_count,
      hourly_rate_ui |-> s.locum.hourly_rate,
      hours_per_shift_ui |-> s.locum.hours_per_shift,
      travel_per_day_ui |-> s.locum.travel_per_day,
      locum_util_pct_ui |-> s.locum.utilization_pct,
      use_exact_total_toggle |-> FALSE,
      exact_total_input |-> 0,
      sliders |-> [i \in 1..Len(s.ref_types) |-> s.ref_types[i].pct],
      normalize |-> TRUE,
      annual_days |-> 1 ]

\* One run of the script, lines 101-206, on the new widget values ui'
Rerun ==
    /\ percent_values' = NormalizeMix(ui'.sliders, ui'.normalize)
    /\ exact_total_spend_override' = ExactOverride(ui')
    /\ with_locums' = scenario(ui', svc', percent_values',
                               ui'.occupancy_pct + ui'.locum_util_pct_ui,
                               ui'.locum_count_ui, ui'.hourly_rate_ui,
                               ui'.hours_per_shift_ui, ui'.travel_per_day_ui)
    /\ without_locums' = scenario(ui', svc', percent_values',
                                  ui'.occupancy_pct, 0, 0,
                                  ui'.hours_per_shift_ui, 0)
    /\ active' = IF ui'.use_locums THEN with_locums' ELSE without_locums'
    /\ period_locum_cost' = PeriodLocumCost(ui'.use_locums, ExactToggle(ui'),
                                            exact_total_spend_override',
                                            active', ui'.annual_days)
    /\ period_net' = PeriodNet(active', ui'.annual_days, period_locum_cost')
    /\ missed_units' = MissedUnits(ui'.total_units, active')
    /\ period_missed' = PeriodMissed(ui', missed_units', ui'.annual_days)

-----------------------------------------------------------------------------
(* all-service-line-roi-v0.9.4/streamlit_app/app.py                        *)
(*                                                                         *)
(* A second Streamlit script with its own state.  Its amounts and shares   *)
(* are floats; here they are exact fractions <<numerator, denominator>> in *)
(* lowest terms with a positive denominator, so the claims about it are    *)
(* settled for the exact values of the expressions the code evaluates.     *)

\* The operations on fractions are functions of fractions
Q == Int \X Nat

GCD[x \in Nat, y \in Nat] == IF y = 0 THEN x ELSE GCD[y, x % y]

Abs[x \in Int] == IF x < 0 THEN 0 - x ELSE x

Reduced[n \in Int, d \in Nat, g \in Nat] == <<n \div g, d \div g>>

\* The fraction n/d (d > 0) in lowest terms
Rat[n \in Int, d \in Nat] == Reduced[n, d, GCD[Abs[n], d]]

Zero == <<0, 1>>
One == <<1, 1>>
RInt(k) == <<k, 1>>

AddOver[x \in Q, y \in Q, g \in Nat] ==
    Rat[x[1] * (y[2] \div g) + y[1] * (x[2] \div g), x[2] * (y[2] \div g)]

RAdd[x \in Q, y \in Q] == AddOver[x, y, GCD[x[2], y[2]]]

RNeg[x \in Q] == <<0 - x[1], x[2]>>
RSub[x \in Q, y \in Q] == RAdd[x, RNeg[y]]

MulOver[x \in Q, y \in Q, g1 \in Nat, g2 \in Nat] ==
    Rat[(x[1] \div g1) * (y[1] \div g2), (x[2] \div g2) * (y[2] \div g1)]

RMul[x \in Q, y \in Q] == MulOver[x, y, GCD[Abs[x[1]], y[2]], GCD[Abs[y[1]], x[2]]]

\* x / y for y > 0
RDiv[x \in Q, y \in Q] == RMul[x, <<y[2], y[1]>>]

LtOver[x \in Q, y \in Q, g \in Nat] == x[1] * (y[2] \div g) < y[1] * (x[2] \div g)

RLt[x \in Q, y \in Q] == LtOver[x, y, GCD[x[2], y[2]]]
RMax[x \in Q, y \in Q] == IF RLt[x, y] THEN y ELSE x
RAbs[x \in Q] == <<Abs[x[1]], x[2]>>

\* 1e-6, the tolerance of normalized_payer_mix
PayerTolerance == <<1, 1000000>>

\* F applied to the value of e, which is computed once
Bind(e, F(_)) == CHOOSE r \in { F(x) : x \in {e} } : TRUE

\* total of normalized_payer_mix
PayerTotal(i) ==
    RAdd[RAdd[i.payer_medicare_pct, i.payer_commercial_pct], i.payer_medicaid_pct]

\* normalized_payer_mix without the division by the total
payer_mix_raw(i) ==
    Bind(PayerTotal(i), LAMBDA total :
        IF total = Zero
        THEN [m |-> <<33, 100>>, c |-> <<17, 50>>, md |-> <<33, 100>>,
              changed |-> TRUE]
        ELSE [m |-> i.payer_medicare_pct,
              c |-> i.payer_commercial_pct,
              md |-> i.payer_medicaid_pct,
              changed |-> RLt[PayerTolerance, RAbs[RSub[total, One]]]])

\* normalized_payer_mix(i): (m, c, md, changed)
normalized_payer_mix(i) ==
    Bind(PayerTotal(i), LAMBDA total :
        IF total = Zero
        THEN [m |-> <<33, 100>>, c |-> <<17, 50>>, md |-> <<33, 100>>,
              changed |-> TRUE]
        ELSE [m |-> RDiv[i.payer_medicare_pct, total],
              c |-> RDiv[i.payer_commercial_pct, total],
              md |-> RDiv[i.payer_medicaid_pct, total],
              changed |-> RLt[PayerTolerance, RAbs[RSub[total, One]]]])

\* blended_direct_rate(i): the rate it returns
blended_direct_rate(i) ==
    Bind(normalized_payer_mix(i), LAMBDA p :
        RMul[i.direct_per_unit,
             RAdd[RAdd[RMul[p.m, i.medicare_factor],
                       RMul[p.c, i.commercial_factor]],
                  RMul[p.md, i.medicaid_factor]]])

PayerMixInfo == "Payer mix auto-normalized to 100%."

\* The st.info of blended_direct_rate
blended_direct_rate_info(i) ==
    IF normalized_payer_mix(i).changed /\ i.show_payer_mix
    THEN {PayerMixInfo} ELSE {}

\* _travel_cost_total(i)
travel_cost_total(i) ==
    IF ~i.amortize_travel \/ i.amortization_shifts <= 0
    THEN RMul[i.travel_per_locum, RInt(i.locums_per_shift)]
    ELSE RMul[RDiv[i.travel_per_locum, RInt(i.amortization_shifts)],
              RInt(i.locums_per_shift)]

\* The units of calculate_shift kept when there is no locum
ShiftUnitsKept(i, with_locum) == i.units

\* units = i.units if with_locum else 0.0
ShiftUnits(i, with_locum) == IF with_locum THEN i.units ELSE Zero

\* coverage_cost of calculate_shift (lines 137-140)
CoverageCost(i, with_locum) ==
    IF with_locum
    THEN RAdd[RAdd[RMul[RInt(i.locums_per_shift), i.locum_cost_per_shift],
                   travel_cost_total(i)],
              RAdd[RAdd[i.add_call_stipend, i.add_overtime_premium],
                   i.add_holiday_premium]]
    ELSE Zero

\* calculate_shift(i, with_locum); roi is None for nan
calculate_shift(i, with_locum) ==
    Bind(ShiftUnits(i, with_locum), LAMBDA units :
    Bind(blended_direct_rate(i), LAMBDA direct_rate :
    Bind(RMul[units, direct_rate], LAMBDA direct_revenue :
    Bind(RMul[RMul[units, direct_rate], i.variable_cost_pct], LAMBDA variable_costs :
    Bind(RMul[RMul[units, i.referral_rate], i.referral_rev], LAMBDA downstream :
    Bind(CoverageCost(i, with_locum), LAMBDA coverage_cost :
    Bind(IF i.overhead_base = "direct"
         THEN RMul[direct_revenue, i.overhead_pct]
         ELSE RMul[RAdd[direct_revenue, downstream], i.overhead_pct], LAMBDA overhead :
    Bind(RAdd[RAdd[variable_costs, coverage_cost], overhead], LAMBDA total_costs :
    Bind(RSub[RAdd[direct_revenue, downstream], total_costs], LAMBDA net :
        [ units |-> units,
          direct_revenue |-> direct_revenue,
          downstream |-> downstream,
          variable_costs |-> variable_costs,
          coverage_cost |-> coverage_cost,
          overhead |-> overhead,
          total_costs |-> total_costs,
          net |-> net,
          roi |-> IF with_locum /\ coverage_cost # Zero
                  THEN Some(RDiv[net, coverage_cost]) ELSE None ])))))))))

\* breakeven_locum_cost returning be_total_coverage, travel and adders left in
breakeven_total_coverage(i) ==
    Bind(calculate_shift(i, TRUE), LAMBDA tmp :
        RMax[Zero, RSub[RAdd[tmp.direct_revenue, tmp.downstream],
                        RAdd[tmp.variable_costs, tmp.overhead]]])

\* breakeven_locum_cost(i)
breakeven_locum_cost(i) ==
    Bind(calculate_shift(i, TRUE), LAMBDA tmp :
    Bind(RAdd[tmp.direct_revenue, tmp.downstream], LAMBDA dir_plus_down :
    Bind(RAdd[tmp.variable_costs, tmp.overhead], LAMBDA var_plus_oh :
    Bind(RAdd[RAdd[i.add_call_stipend, i.add_overtime_premium],
              i.add_holiday_premium], LAMBDA fixed_adders :
    Bind(travel_cost_total(i), LAMBDA travel_now :
    Bind(RMax[Zero, RSub[dir_plus_down, var_plus_oh]], LAMBDA be_total_coverage :
        RMax[Zero, RSub[be_total_coverage, RAdd[travel_now, fixed_adders]]]))))))

\* cfg = SERVICE_LINES[service_line] of app.py, one seed in small amounts
SHIFT_CFG ==
    [ units |-> RInt(2), direct_per_unit |-> RInt(2),
      referral_rate |-> <<1, 2>>, referral_rev |-> RInt(2),
      variable_cost_pct |-> <<1, 5>>, safe_capacity |-> RInt(2),
      locum_cost |-> RInt(1) ]

\* The values the payer widgets and the panels' fallbacks start from
PayerDefaults ==
    [ payer_medicare_pct |-> <<1, 2>>, payer_commercial_pct |-> <<7, 20>>,
      payer_medicaid_pct |-> <<3, 20>>,
      medicare_factor |-> One, commercial_factor |-> <<13, 10>>,
      medicaid_factor |-> <<4, 5>> ]

\* i = Inputs(...) on the widgets' default values (the fields the per-shift
\* figures read)
ShiftDefaults ==
    [ units |-> SHIFT_CFG.units,
      direct_per_unit |-> SHIFT_CFG.direct_per_unit,
      referral_rate |-> SHIFT_CFG.referral_rate,
      referral_rev |-> SHIFT_CFG.referral_rev,
      variable_cost_pct |-> SHIFT_CFG.variable_cost_pct,
      safe_capacity |-> SHIFT_CFG.safe_capacity,
      locums_per_shift |-> 1,
      locum_cost_per_shift |-> SHIFT_CFG.locum_cost,
      travel_per_locum |-> RInt(1),
      amortize_travel |-> TRUE,
      amortization_shifts |-> 10,
      show_payer_mix |-> FALSE,
      payer_medicare_pct |-> PayerDefaults.payer_medicare_pct,
      payer_commercial_pct |-> PayerDefaults.payer_commercial_pct,
      payer_medicaid_pct |-> PayerDefaults.payer_medicaid_pct,
      medicare_factor |-> PayerDefaults.medicare_factor,
      commercial_factor |-> PayerDefaults.commercial_factor,
      medicaid_factor |-> PayerDefaults.medicaid_factor,
      show_finance_settings |-> FALSE,
      overhead_base |-> "direct",
      overhead_pct |-> <<1, 10>>,
      show_costs_plus |-> FALSE,
      add_call_stipend |-> Zero,
      add_overtime_premium |-> Zero,
      add_holiday_premium |-> Zero ]

CapacityWarning == "Entered volume exceeds safe capacity. Results may be unrealistic."

\* The guardrail of lines 345-346
capacity_warning(i) ==
    IF RLt[i.safe_capacity, i.units] THEN {CapacityWarning} ELSE {}

\* Values the v0.9.4 widgets take.  A number_input keeps a typed value
\* between its steps: 0.1500008 brings the payer total within 1e-6 of 1.
ShiftUnitValues == { RInt(k) : k \in 0..MaxUnits }
ShiftCostValues == { RInt(k) : k \in 0..MaxMoney }
ShiftLocumValues == 1..MaxLocums
TravelValues == { Zero, One }
VariableCostValues == { Zero, <<1, 5>> }
OverheadPctValues == { Zero, <<1, 10>> }
StipendValues == { Zero, One }
PayerPctValues ==
    { Zero, <<3, 20>>, <<7, 20>>, <<1, 2>>, One, <<187501, 1250000>> }
FactorValues == { One, <<13, 10>> }

-----------------------------------------------------------------------------

\* The first run of each script, on the widgets' default values
Init ==
    /\ yaml = TRUE
    /\ config_files = <<"valid", "absent", "absent">>
    /\ CFG = load_config(yaml, config_files)
    /\ service_name \in DOMAIN SERVICE_MAP
    /\ ui = Defaults(svc)
    /\ percent_values = NormalizeMix(ui.sliders, ui.normalize)
    /\ exact_total_spend_override = ExactOverride(ui)
    /\ with_locums = scenario(ui, svc, percent_values,
                              ui.occupancy_pct + ui.locum_util_pct_ui,
                              ui.locum_count_ui, ui.hourly_rate_ui,
                              ui.hours_per_shift_ui, ui.travel_per_day_ui)
    /\ without_locums = scenario(ui, svc, percent_values,
                                 ui.occupancy_pct, 0, 0,
                                 ui.hours_per_shift_ui, 0)
    /\ active = IF ui.use_locums THEN with_locums ELSE without_locums
    /\ period_locum_cost = PeriodLocumCost(ui.use_locums, ExactToggle(ui),
                                           exact_total_spend_override,
                                           active, ui.annual_days)
    /\ period_net = PeriodNet(active, ui.annual_days, period_locum_cost)
    /\ missed_units = MissedUnits(ui.total_units, active)
    /\ period_missed = PeriodMissed(ui, missed_units, ui.annual_days)
    /\ messages = {}
    /\ shift_inputs = ShiftDefaults
    /\ payer_mix = normalized_payer_mix(shift_inputs)
    /\ shift_a = calculate_shift(shift_inputs, TRUE)
    /\ shift_b = calculate_shift(shift_inputs, FALSE)
    /\ breakeven = breakeven_locum_cost(shift_inputs)
    /\ shift_messages = blended_direct_rate_info(shift_inputs) \cup capacity_warning(shift_inputs)

\* A widget changes to the values u: the script reruns, no button is pressed
Change(u) ==
    /\ UNCHANGED <<service_name, config_vars, shift_vars>>
    /\ ui' = u
    /\ Rerun
    /\ messages' = {}

-----------------------------------------------------------------------------
(* Actions: one per widget                                                 *)

SetTotalUnits ==
    \E v \in UnitValues : Change([ui EXCEPT !.total_units = v])

SetOccupancy ==
    \E v \in StaffedValues : Change([ui EXCEPT !.occupancy_pct = v])

SetUnitRev ==
    \E v \in MoneyValues : Change([ui EXCEPT !.unit_rev = v])

SetUnitCost ==
    \E v \in MoneyValues : Change([ui EXCEPT !.unit_cost = v])

SetReferralsPerUnit ==
    \E v \in ReferralValues : Change([ui EXCEPT !.referrals_per_unit = v])

SetRevenuePerReferral ==
    \E v \in MoneyValues : Change([ui EXCEPT !.revenue_per_referral = v])

\* Unticking removes the exact-total toggle and amount from the page; they
\* come back with their value=False and value=0.0
SetUseLocums ==
    \E v \in BOOLEAN :
        Change(IF v THEN [ui EXCEPT !.use_locums = TRUE]
               ELSE [ui EXCEPT !.use_locums = FALSE,
                               !.use_exact_total_toggle = FALSE,
                               !.exact_total_input = 0])

SetLocumCount ==
    \E v \in LocumValues : Change([ui EXCEPT !.locum_count_ui = v])

SetHourlyRate ==
    \E v \in MoneyValues : Change([ui EXCEPT !.hourly_rate_ui = v])

SetHoursPerShift ==
    \E v \in HourValues : Change([ui EXCEPT !.hours_per_shift_ui = v])

SetTravelPerDay ==
    \E v \in MoneyValues : Change([ui EXCEPT !.travel_per_day_ui = v])

SetLocumUtil ==
    \E v \in UtilValues : Change([ui EXCEPT !.locum_util_pct_ui = v])

\* The toggle is on the page only while locums are used (line 104)
SetExactToggle ==
    /\ ui.use_locums
    /\ \E v \in BOOLEAN :
        Change(IF v THEN [ui EXCEPT !.use_exact_total_toggle = TRUE]
               ELSE [ui EXCEPT !.use_exact_total_toggle = FALSE,
                               !.exact_total_input = 0])

\* The amount is on the page only while the toggle is on (line 110)
SetExactTotal ==
    /\ ui.use_locums /\ ui.use_exact_total_toggle
    /\ \E v \in MoneyValues : Change([ui EXCEPT !.exact_total_input = v])

SetSlider ==
    \E i \in 1..Len(ui.sliders), v \in SliderValues :
        Change([ui EXCEPT !.sliders[i] = v])

SetNormalize ==
    \E v \in BOOLEAN : Change([ui EXCEPT !.normalize = v])

SetAnnualDays ==
    \E v \in DayValues : Change([ui EXCEPT !.annual_days = v])

\* st.success of line 264
CopiedNotice == "Scenario copied below as a CSV row."

\* st.error of line 278
ReportLabNotice ==
    "ReportLab is required to export a PDF. Add 'reportlab' to your requirements.txt and rerun."

\* "Copy Scenario Row", lines 244-264: a rerun that ends in st.success
CopyScenarioRow ==
    /\ UNCHANGED <<service_name, config_vars, shift_vars>>
    /\ ui' = ui
    /\ Rerun
    /\ messages' = {CopiedNotice}

\* "Generate PDF Snapshot", lines 271-279 and 361-371: st.error when
\* ReportLab cannot be imported
GeneratePdf ==
    \E reportlab \in BOOLEAN :
        /\ UNCHANGED <<service_name, config_vars, shift_vars>>
        /\ ui' = ui
        /\ Rerun
        /\ messages' = IF reportlab THEN {} ELSE {ReportLabNotice}

\* The process starts with the yaml module importable or not (y) and the
\* candidate files f: load_config() runs (line 63); when it raises, the
\* script ends there, otherwise the first run follows on the widgets' defaults
Start(y, f) ==
    /\ yaml' = y
    /\ config_files' = f
    /\ CFG' = load_config(y, f)
    /\ messages' = {}
    /\ UNCHANGED shift_vars
    /\ IF CFG' = "raised"
       THEN UNCHANGED session_vars
       ELSE /\ service_name' \in DOMAIN SERVICE_MAP'
            /\ ui' = Defaults(svc')
            /\ Rerun

\* One of the candidate files is written, removed or damaged, and the
\* process starts again
StartWithFile ==
    \E k \in 1..Len(config_files), kind \in FileKinds :
        Start(yaml, [config_files EXCEPT ![k] = kind])

\* PyYAML is installed or removed (lines 5-8), and the process starts again
StartWithYaml ==
    \E y \in BOOLEAN : Start(y, config_files)

\* One run of app.py on the inputs i_new
ShiftRerun(i_new) ==
    /\ shift_inputs' = i_new
    /\ payer_mix' = normalized_payer_mix(i_new)
    /\ shift_a' = calculate_shift(i_new, TRUE)
    /\ shift_b' = calculate_shift(i_new, FALSE)
    /\ breakeven' = breakeven_locum_cost(i_new)
    /\ shift_messages' = blended_direct_rate_info(i_new) \cup capacity_warning(i_new)
    /\ UNCHANGED <<session_vars, messages, config_vars>>

SetShiftUnits ==
    \E v \in ShiftUnitValues : ShiftRerun([shift_inputs EXCEPT !.units = v])

SetVariableCostPct ==
    \E v \in VariableCostValues :
        ShiftRerun([shift_inputs EXCEPT !.variable_cost_pct = v])

SetLocumsPerShift ==
    \E v \in ShiftLocumValues :
        ShiftRerun([shift_inputs EXCEPT !.locums_per_shift = v])

SetLocumCostPerShift ==
    \E v \in ShiftCostValues :
        ShiftRerun([shift_inputs EXCEPT !.locum_cost_per_shift = v])

SetTravelPerLocum ==
    \E v \in TravelValues :
        ShiftRerun([shift_inputs EXCEPT !.travel_per_locum = v])

SetAmortizeTravel ==
    \E v \in BOOLEAN : ShiftRerun([shift_inputs EXCEPT !.amortize_travel = v])

\* The payer panel opens on its defaults; closed, Inputs takes the fallbacks
SetShowPayerMix ==
    \E v \in BOOLEAN :
        ShiftRerun([shift_inputs EXCEPT
            !.show_payer_mix = v,
            !.payer_medicare_pct = PayerDefaults.payer_medicare_pct,
            !.payer_commercial_pct = PayerDefaults.payer_commercial_pct,
            !.payer_medicaid_pct = PayerDefaults.payer_medicaid_pct,
            !.medicare_factor = PayerDefaults.medicare_factor,
            !.commercial_factor = PayerDefaults.commercial_factor,
            !.medicaid_factor = PayerDefaults.medicaid_factor])

SetPayerMedicarePct ==
    /\ shift_inputs.show_payer_mix
    /\ \E v \in PayerPctValues :
        ShiftRerun([shift_inputs EXCEPT !.payer_medicare_pct = v])

SetPayerCommercialPct ==
    /\ shift_inputs.show_payer_mix
    /\ \E v \in PayerPctValues :
        ShiftRerun([shift_inputs EXCEPT !.payer_commercial_pct = v])

SetPayerMedicaidPct ==
    /\ shift_inputs.show_payer_mix
    /\ \E v \in PayerPctValues :
        ShiftRerun([shift_inputs EXCEPT !.payer_medicaid_pct = v])

SetCommercialFactor ==
    /\ shift_inputs.show_payer_mix
    /\ \E v \in FactorValues :
        ShiftRerun([shift_inputs EXCEPT !.commercial_factor = v])

\* The finance panel: closed, overhead is 10% of direct revenue
SetShowFinanceSettings ==
    \E v \in BOOLEAN :
        ShiftRerun([shift_inputs EXCEPT !.show_finance_settings = v,
                                        !.overhead_base = "direct",
                                        !.overhead_pct = <<1, 10>>])

SetOverheadBase ==
    /\ shift_inputs.show_finance_settings
    /\ \E v \in {"direct", "total"} :
        ShiftRerun([shift_inputs EXCEPT !.overhead_base = v])

SetOverheadPct ==
    /\ shift_inputs.show_finance_settings
    /\ \E v \in OverheadPctValues :
        ShiftRerun([shift_inputs EXCEPT !.overhead_pct = v])

\* The Costs+ panel: closed, the three adders are 0.0
SetShowCostsPlus ==
    \E v \in BOOLEAN :
        ShiftRerun([shift_inputs EXCEPT !.show_costs_plus = v,
                                        !.add_call_stipend = Zero,
                                        !.add_overtime_premium = Zero,
                                        !.add_holiday_premium = Zero])

SetCallStipend ==
    /\ shift_inputs.show_costs_plus
    /\ \E v \in StipendValues :
        ShiftRerun([shift_inputs EXCEPT !.add_call_stipend = v])

-----------------------------------------------------------------------------
(* Specifications                                                          *)

\* The preset source
NextConfig ==
    \/ StartWithFile
    \/ StartWithYaml

\* The referral mix: the sliders, the toggle, the two buttons
NextMix ==
    \/ SetSlider
    \/ SetNormalize
    \/ CopyScenarioRow
    \/ GeneratePdf

\* The shift: capacity, staffing, revenue and cost per unit, referrals
NextScenario ==
    \/ SetTotalUnits
    \/ SetOccupancy
    \/ SetLocumUtil
    \/ SetUnitRev
    \/ SetUnitCost
    \/ SetReferralsPerUnit
    \/ SetUseLocums

\* The locum cost and the analysis period
NextPeriod ==
    \/ SetUseLocums
    \/ SetLocumCount
    \/ SetHourlyRate
    \/ SetHoursPerShift
    \/ SetTravelPerDay
    \/ SetExactToggle
    \/ SetExactTotal
    \/ SetAnnualDays
    \/ SetOccupancy

\* The missed-opportunity estimate: capacity, occupancy, the per-unit amounts
\* and the period
NextMissed ==
    \/ SetTotalUnits
    \/ SetOccupancy
    \/ SetUnitRev
    \/ SetUnitCost
    \/ SetReferralsPerUnit
    \/ SetRevenuePerReferral
    \/ SetAnnualDays

\* v0.9.4: the payer panel and the operating cost slider
NextPayer ==
    \/ SetShowPayerMix
    \/ SetPayerMedicarePct
    \/ SetPayerCommercialPct
    \/ SetPayerMedicaidPct
    \/ SetCommercialFactor
    \/ SetVariableCostPct

\* v0.9.4: volume, coverage cost and the finance and Costs+ panels
NextShift ==
    \/ SetShiftUnits
    \/ SetLocumsPerShift
    \/ SetLocumCostPerShift
    \/ SetTravelPerLocum
    \/ SetAmortizeTravel
    \/ SetShowFinanceSettings
    \/ SetOverheadBase
    \/ SetOverheadPct
    \/ SetShowCostsPlus
    \/ SetCallStipend

Next ==
    \/ NextMix \/ NextScenario \/ NextPeriod \/ NextMissed \/ NextConfig
    \/ NextPayer \/ NextShift

SpecMix == Init /\ [][NextMix]_vars
SpecScenario == Init /\ [][NextScenario]_vars
SpecPeriod == Init /\ [][NextPeriod]_vars
SpecMissed == Init /\ [][NextMissed]_vars
SpecConfig == Init /\ [][NextConfig]_vars
SpecPayer == Init /\ [][NextPayer]_vars
SpecShift == Init /\ [][NextShift]_vars
Spec == Init /\ [][Next]_vars

-----------------------------------------------------------------------------
(* Properties                                                              *)

pct_sum_in == SumSeq(ui.sliders)

Results == {with_locums, without_locums}

\* k is an integer nearest to n / d (d > 0): |k - n/d| <= 1/2
Nearest(k, n, d) == (2 * k * d - 2 * n) \in (0 - d)..d

\* C1: with auto-normalize on and a positive slider sum, the mix used for the
\* evaluation has the sliders' length and sums to exactly 100.
C1_NormalizedSumIs100 ==
    (ui.normalize /\ pct_sum_in > 0)
        => /\ Len(percent_values) = Len(ui.sliders)
           /\ SumSeq(percent_values) = 100

\* A rescaled mix whose rounded values did not sum to 100: the first element
\* carries a drift
C1_Witness ==
    /\ ui.normalize
    /\ pct_sum_in > 0 /\ pct_sum_in # 100
    /\ percent_values[1] # RoundScaled(ui.sliders[1], pct_sum_in)
    /\ SumSeq(percent_values) = 100

\* C2: with auto-normalize on and a positive slider sum other than 100, every
\* element but the first is its slider value times 100 / sum rounded to a
\* nearest integer, and the first element is what is left of 100: the whole
\* residual is in the first element.
C2_ResidualOnFirstOnly ==
    (ui.normalize /\ pct_sum_in > 0 /\ pct_sum_in # 100)
        => /\ \A i \in 2..Len(percent_values) :
                Nearest(percent_values[i], 100 * ui.sliders[i], pct_sum_in)
           /\ percent_values[1] = 100 - SumSeq(Tail(percent_values))

\* A rescaled mix whose first element is no nearest integer of its own
\* scaled value: it absorbed a residual
C2_Witness ==
    /\ ui.normalize
    /\ pct_sum_in > 0 /\ pct_sum_in # 100
    /\ ~Nearest(percent_values[1], 100 * ui.sliders[1], pct_sum_in)
    /\ \E i \in 2..Len(percent_values) : percent_values[i] # ui.sliders[i]

\* C3: the mix is the sliders' values, element for element, when they sum to
\* 100, when auto-normalize is off and when they sum to 0; and normalizing the
\* mix once more changes nothing.
C3_UnchangedAndIdempotent ==
    /\ (pct_sum_in = 100 \/ ~ui.normalize \/ pct_sum_in = 0)
            => percent_values = ui.sliders
    /\ NormalizeMix(percent_values, ui.normalize) = percent_values

\* Auto-normalize off on a mix that would have been rescaled
C3_Witness ==
    /\ ~ui.normalize
    /\ pct_sum_in > 0 /\ pct_sum_in # 100
    /\ percent_values = ui.sliders
    /\ NormalizeMixAlways(ui.sliders, ui.normalize) # ui.sliders

\* The two notices the script can show (lines 264 and 278); neither is about
\* the referral mix
Notices == {CopiedNotice, ReportLabNotice}

\* C4: whenever the mix used for the evaluation does not sum to 100, the run
\* shows a warning about it.
C4_NonHundredMixWarned ==
    SumSeq(percent_values) # 100 => (messages \ Notices) # {}

\* C5: a scenario whose staffed percentage is 0 has no covered units, no gross
\* revenue, no operating cost and no referral revenue.
C5_ZeroStaffedIsZero ==
    \A r \in Results :
        r.staffed_pct = 0
            => /\ r.units_covered = 0
               /\ r.gross_rev = 0
               /\ r.operating_cost = 0
               /\ r.referral_rev = 0

\* Nothing staffed although units, revenue, cost and referrals are all positive
C5_Witness ==
    /\ without_locums.staffed_pct = 0
    /\ ui.total_units > 1 /\ ui.unit_rev > 0 /\ ui.unit_cost > 0
    /\ ui.referrals_per_unit > 0
    /\ with_locums.referral_rev > 0

\* C6: the returned staffed percentage is within 0..100, the covered units are
\* within 0..total_units (no negative missed units), and every unit is
\* covered when the staffed percentage passed in is 100 or more.
C6_CoverageWithinCapacity ==
    /\ \A r \in Results :
        /\ r.staffed_pct \in 0..100
        /\ r.units_covered \in 0..ui.total_units
        /\ ui.total_units - r.units_covered >= 0
    /\ (ui.occupancy_pct + ui.locum_util_pct_ui >= 100)
            => with_locums.units_covered = ui.total_units
    /\ ui.occupancy_pct >= 100
            => without_locums.units_covered = ui.total_units

\* Occupancy and locum utilization overlap beyond 100
C6_Witness ==
    /\ ui.occupancy_pct + ui.locum_util_pct_ui > 100
    /\ ui.occupancy_pct < 100
    /\ ui.total_units > 1
    /\ with_locums.units_covered = ui.total_units
    /\ without_locums.units_covered < ui.total_units

\* C7: in both results net_after is net_before less locum_total, and
\* net_before is gross_rev plus referral_rev less operating_cost.
C7_NetIdentities ==
    \A r \in Results :
        /\ r.net_after = r.net_before - r.locum_total
        /\ r.net_before = r.gross_rev + r.referral_rev - r.operating_cost

\* A covered shift with revenue, cost, referrals and a locum cost
C7_Witness ==
    /\ with_locums.locum_total > 0
    /\ with_locums.gross_rev > 0
    /\ with_locums.operating_cost > 0
    /\ with_locums.referral_rev > 0
    /\ with_locums.net_after < 0
    /\ without_locums.net_after = without_locums.net_before

\* C8: a supplied exact total greater than 0 is the period locum cost.
C8_OverrideIsPeriodCost ==
    \A v \in exact_total_spend_override :
        v > 0 => period_locum_cost = Dollars(v)

\* An exact total that differs from the computed cost of a period of
\* several days
C8_Witness ==
    /\ \E v \in exact_total_spend_override :
            v > 0 /\ Dollars(v) # active.locum_total * ui.annual_days
    /\ ui.annual_days > 1
    /\ active.locum_total > 0

\* C9: period_net is net_before times the days less the period locum cost;
\* without an exact total, or with one of 0, the period locum cost is
\* locum_total times the days, and period_net is net_after times the days.
C9_PeriodNet ==
    /\ period_net = active.net_before * ui.annual_days - period_locum_cost
    /\ (exact_total_spend_override \in {None, Some(0)})
            => /\ period_locum_cost = active.locum_total * ui.annual_days
               /\ period_net = active.net_after * ui.annual_days

\* An exact total of 0 entered for a period of several days with a locum cost
C9_Witness ==
    /\ exact_total_spend_override = Some(0)
    /\ ui.annual_days > 1
    /\ active.locum_total > 0
    /\ period_locum_cost > 0

\* C10: a rerun that differs from the one before only in a larger (or equal)
\* unit_rev has a net_before no smaller, in both results.
C10_UnitRevMonotone ==
    [][ ( /\ service_name' = service_name
          /\ ui' = [ui EXCEPT !.unit_rev = ui'.unit_rev]
          /\ ui'.unit_rev >= ui.unit_rev )
        => /\ with_locums'.net_before >= with_locums.net_before
           /\ without_locums'.net_before >= without_locums.net_before ]_vars

\* unit_rev was raised above the preset's default while units are covered
C10_Witness ==
    /\ ui.unit_rev > svc.default.unit_rev
    /\ with_locums.units_covered > 0
    /\ without_locums.units_covered > 0
    /\ ui.unit_cost > 0

\* C13: locum_total is the locum count times (hourly rate times hours per
\* shift plus travel per day), the count applied once to the whole rate; the
\* evaluation without locums has no locum cost and net_after = net_before.
C13_LocumTotalCountOnce ==
    /\ with_locums.locum_total
         = Dollars(ui.locum_count_ui
                   * (ui.hourly_rate_ui * ui.hours_per_shift_ui
                      + ui.travel_per_day_ui))
    /\ without_locums.locum_total = 0
    /\ without_locums.net_after = without_locums.net_before

\* Two locums with an hourly rate, several hours and a travel amount
C13_Witness ==
    /\ ui.locum_count_ui > 1
    /\ ui.hourly_rate_ui > 0 /\ ui.hours_per_shift_ui > 1
    /\ ui.travel_per_day_ui > 0
    /\ with_locums.locum_total
         = Dollars(2 * ui.hourly_rate_ui * ui.hours_per_shift_ui
                   + 2 * ui.travel_per_day_ui)
    /\ without_locums.net_before # 0

\* C14: missed_units is max(0, total_units - active.units_covered), and
\* period_missed is missed_units times (unit_rev + referrals_per_unit *
\* revenue_per_referral - unit_cost) times the days; it is 0 when the active
\* scenario covers every unit.
C14_MissedOpportunity ==
    /\ missed_units = Max(0, ui.total_units - active.units_covered)
    /\ 10 * period_missed
         = missed_units * ui.annual_days
           * ( Dollars(10 * ui.unit_rev)
               + Dollars(ui.referrals_per_unit * ui.revenue_per_referral)
               - Dollars(10 * ui.unit_cost) )
    /\ active.units_covered = ui.total_units => period_missed = 0

\* Units missed over several days, with every term of the estimate positive
C14_Witness ==
    /\ missed_units > 0
    /\ ui.annual_days > 1
    /\ ui.unit_rev > 0 /\ ui.unit_cost > 0
    /\ ui.referrals_per_unit > 0 /\ ui.revenue_per_referral > 0
    /\ period_missed > 0

\* C17: with auto-normalize on and a positive slider sum, every element of
\* the mix used for the evaluation is within 0..100.
C17_NormalizedWithinRange ==
    (ui.normalize /\ pct_sum_in > 0)
        => \A k \in 1..Len(percent_values) : percent_values[k] \in 0..100

\* No candidate file that line 59 accepts, or no yaml module
NoUsableConfig ==
    ~yaml \/ \A k \in 1..Len(config_files) : config_files[k] \notin Usable

\* C11: load_config() never lets a failure out, and without a usable preset
\* file (absent, unreadable, unparsable, not a mapping, no service_lines, no
\* yaml module) it returns the built-in sample.
C11_ConfigFallsBackToSample ==
    /\ CFG # "raised"
    /\ NoUsableConfig => CFG = "sample"

\* An input the spec calls invalid: a negative capacity, rate or cost, or a
\* period of less than a day
InvalidInput ==
    \/ ui.total_units < 0
    \/ ui.unit_rev < 0 \/ ui.unit_cost < 0
    \/ ui.referrals_per_unit < 0 \/ ui.revenue_per_referral < 0
    \/ ui.hourly_rate_ui < 0 \/ ui.travel_per_day_ui < 0
    \/ ui.annual_days < 1
    \/ \E k \in 1..Len(svc.ref_types) :
            RtUnitRev(svc.ref_types[k], ui.revenue_per_referral) < 0

\* C12: a run on invalid input reports a validation failure.
C12_InvalidInputRejected ==
    (CFG # "raised" /\ InvalidInput) => (messages \ Notices) # {}

\* The identities of one result r of calculate_shift on the inputs i
ShiftIdentities(r, i) ==
    /\ r.net = RSub[RAdd[r.direct_revenue, r.downstream],
                    RAdd[RAdd[r.variable_costs, r.coverage_cost], r.overhead]]
    /\ r.overhead = IF i.overhead_base = "direct"
                    THEN RMul[i.overhead_pct, r.direct_revenue]
                    ELSE RMul[i.overhead_pct, RAdd[r.direct_revenue, r.downstream]]

\* C15: both results of calculate_shift satisfy
\* net = direct_revenue + downstream - (variable_costs + coverage_cost + overhead)
\* with overhead = overhead_pct * direct_revenue on the "direct" base and
\* overhead_pct * (direct_revenue + downstream) otherwise, and without a locum
\* every revenue, cost and net field is 0.
C15_ShiftNetIdentity ==
    /\ ShiftIdentities(shift_a, shift_inputs)
    /\ ShiftIdentities(shift_b, shift_inputs)
    /\ \A f \in {"units", "direct_revenue", "downstream", "variable_costs",
                 "coverage_cost", "overhead", "total_costs", "net"} :
            shift_b[f] = Zero

C15_Witness ==
    /\ shift_inputs.overhead_base = "total"
    /\ shift_inputs.overhead_pct # Zero
    /\ shift_inputs.units # Zero
    /\ shift_a.downstream # Zero
    /\ shift_a.variable_costs # Zero
    /\ shift_inputs.locums_per_shift > 1
    /\ shift_inputs.add_call_stipend # Zero
    /\ RLt[shift_a.net, Zero]
    /\ shift_a.overhead # RMul[shift_inputs.overhead_pct, shift_a.direct_revenue]

\* The payer shares as entered and their sum
PayerShares == <<shift_inputs.payer_medicare_pct, shift_inputs.payer_commercial_pct, shift_inputs.payer_medicaid_pct>>
PayerSum == PayerTotal(shift_inputs)

\* What C16 says apart from the changed flag of a positive sum
PayerMixShares ==
    /\ PayerSum = Zero =>
            payer_mix = [m |-> <<33, 100>>, c |-> <<17, 50>>, md |-> <<33, 100>>,
                         changed |-> TRUE]
    /\ PayerSum # Zero =>
            /\ payer_mix.m = RDiv[PayerShares[1], PayerSum]
            /\ payer_mix.c = RDiv[PayerShares[2], PayerSum]
            /\ payer_mix.md = RDiv[PayerShares[3], PayerSum]
            /\ RAdd[RAdd[payer_mix.m, payer_mix.c], payer_mix.md] = One

\* C16 as stated: a zero sum gives (0.33, 0.34, 0.33) flagged changed; a
\* positive sum gives each share divided by the sum, the three summing to 1,
\* and changed is true exactly when the sum differs from 1.
C16_ChangedIffSumNotOne ==
    /\ PayerMixShares
    /\ PayerSum # Zero => (payer_mix.changed <=> PayerSum # One)

\* C16 amended: the same, with changed true exactly when the sum differs
\* from 1 by more than 1e-6.
C16_ChangedIffBeyondTolerance ==
    /\ PayerMixShares
    /\ PayerSum # Zero =>
            (payer_mix.changed <=> RLt[PayerTolerance, RAbs[RSub[PayerSum, One]]])

C16_Witness ==
    /\ shift_inputs.show_payer_mix
    /\ PayerSum # Zero
    /\ PayerSum # One
    /\ payer_mix.m # PayerShares[1]
    /\ ~payer_mix.changed

\* net of calculate_shift(with_locum = true) with locum_cost_per_shift
\* replaced by cost
NetAtLocumCost(cost) ==
    calculate_shift([shift_inputs EXCEPT !.locum_cost_per_shift = cost], TRUE).net

\* C18 as stated: a positive breakeven value b put in the place of
\* locum_cost_per_shift gives net = 0.
C18_BreakevenZeroesNet ==
    RLt[Zero, breakeven] => NetAtLocumCost(breakeven) = Zero

\* C18 amended: b is the locum portion of the whole shift.  Put in the place
\* of locum_cost_per_shift it gives net = (1 - locums_per_shift) * b, which is
\* 0 for one locum; b / locums_per_shift gives net = 0.
C18_BreakevenIsShiftLocumPortion ==
    RLt[Zero, breakeven] =>
        /\ NetAtLocumCost(breakeven) =
                RMul[RInt(1 - shift_inputs.locums_per_shift), breakeven]
        /\ NetAtLocumCost(RDiv[breakeven, RInt(shift_inputs.locums_per_shift)]) = Zero

C18_Witness ==
    /\ RLt[Zero, breakeven]
    /\ shift_inputs.locums_per_shift > 1
    /\ shift_inputs.travel_per_locum # Zero
    /\ shift_inputs.add_call_stipend # Zero
    /\ breakeven # shift_inputs.locum_cost_per_shift
    /\ RLt[NetAtLocumCost(breakeven), Zero]

====
